---- MODULE Spec2Model ----
(***************************************************************************)
(* Control plane of the multi-tenant platform: the tRPC router's project   *)
(* lifecycle (create, pause, resume, delete), credential rotation,         *)
(* organization membership, organization deletion and the deployment of    *)
(* edge functions, over the tables of the drizzle schema.                  *)
(* Every handler is split at its awaits on the                             *)
(* database, so that concurrent requests interleave exactly where the      *)
(* server lets them.                                                       *)
(* Awaits on the provisioning hooks touch no table and are folded into the *)
(* database statement that follows them.  A hook may fail, and so may the  *)
(* insert into the audit log; the other statements succeed, but for the    *)
(* insert that the unique index on projects.slug rejects.  Timestamps are  *)
(* kept as set (TRUE) or null (FALSE).                                     *)
(***************************************************************************)
EXTENDS Integers, Sequences, FiniteSets, TLC

VARIABLES
    organizations,        \* ids of the rows of table organizations
    organizationMembers,  \* member id -> [organizationId, userId, role]
    subscriptions,        \* organization id -> [planType], for organizations with a row
    planLimits,           \* plan type -> [maxProjects], for plans with a row
    edgeFunctions,        \* sequence of [projectId, status, version]; id is the index
    projects,             \* sequence of project rows; a row's id is its index
    projectCredentials,   \* project id -> [jwtSecret, anonKey, serviceKey]
    auditLogs,            \* sequence of [userId, action, resourceId]
    request,              \* per request slot: the handler's locals and position
    started,              \* number of requests received so far
    issued                \* number of signing secrets drawn so far

vars == <<organizations, organizationMembers, subscriptions, planLimits, edgeFunctions,
          projects, projectCredentials, auditLogs, request, started, issued>>

tables == <<organizations, organizationMembers, subscriptions, planLimits, edgeFunctions,
            projects, projectCredentials, auditLogs>>

(***************************************************************************)
(* Bounds of the model.                                                    *)
(***************************************************************************)
MaxCalls == 2      \* request slots served at the same time
MaxOps == 2        \* requests received in one behaviour of overlapping requests
SeqMaxOps == 4     \* requests received in one behaviour, one request at a time

Calls == 1..MaxCalls
Users == 1..3
\* No row (a select that found nothing), and no value of a string column.
NULL == [null |-> TRUE]
undefined == "undefined"

(***************************************************************************)
(* Names a caller may give a project, as sequences of characters.          *)
(***************************************************************************)
Names == {<<"a">>, <<"A">>, <<"b">>, <<"-", "c", " ">>}

(***************************************************************************)
(* generateSlug: lower-case, every run of characters outside [a-z0-9]      *)
(* replaced by one hyphen, one leading and one trailing hyphen removed,    *)
(* then cut to the first 50 characters.                                    *)
(***************************************************************************)
SlugMax == 50

Upper == [A |-> "a", B |-> "b", C |-> "c"]

toLowerCase(ch) == IF ch \in DOMAIN Upper THEN Upper[ch] ELSE ch

isAlnum(ch) == ch \in {"a", "b", "c", "0", "1"}

RECURSIVE collapse(_, _)
collapse(s, inRun) ==
    IF s = <<>> THEN <<>>
    ELSE IF isAlnum(Head(s)) THEN <<Head(s)>> \o collapse(Tail(s), FALSE)
    ELSE IF inRun THEN collapse(Tail(s), TRUE)
    ELSE <<"-">> \o collapse(Tail(s), TRUE)

stripEnds(s) ==
    LET a == IF s # <<>> /\ Head(s) = "-" THEN Tail(s) ELSE s
    IN  IF a # <<>> /\ a[Len(a)] = "-" THEN SubSeq(a, 1, Len(a) - 1) ELSE a

substring(s, n) == IF Len(s) <= n THEN s ELSE SubSeq(s, 1, n)

generateSlug(name) ==
    substring(stripEnds(collapse([i \in 1..Len(name) |-> toLowerCase(name[i])], FALSE)),
              SlugMax)

\* Names whose slug reaches the cut: a run of letters, a space and a letter;
\* and a name without a letter or digit.
Repeat(ch, n) == [i \in 1..n |-> ch]

LongNames ==
    {Repeat("a", n) \o <<" ", "b">> : n \in (SlugMax - 2)..SlugMax} \union {<<" ">>}

(***************************************************************************)
(* Reference data: the seeded plan limits.                                 *)
(***************************************************************************)
FreeMaxProjects == 2
ProMaxProjects == 10
EnterpriseMaxProjects == 100

\* The rows the seed script inserts into planLimits.
plans == [free |-> [maxProjects |-> FreeMaxProjects],
          pro |-> [maxProjects |-> ProMaxProjects],
          enterprise |-> [maxProjects |-> EnterpriseMaxProjects]]

getPlanLimits(planType) ==
    IF planType \in DOMAIN planLimits THEN planLimits[planType] ELSE NULL

(***************************************************************************)
(* Errors a handler ends with, and its success.                            *)
(***************************************************************************)
TRPCError(code, message) == [code |-> code, message |-> message]

Ok == [code |-> "OK", message |-> ""]

\* An Error that is not a TRPCError, raised by the database driver or a hook.
PlainError(message) == [code |-> "ERROR", message |-> message]

(***************************************************************************)
(* Reads of the tables.                                                    *)
(***************************************************************************)
ProjectIds == DOMAIN projects

getProjectById(id) == IF id \in ProjectIds THEN projects[id] ELSE NULL

getProjectBySlug(slug) ==
    IF \E id \in ProjectIds : projects[id].slug = slug
    THEN projects[CHOOSE id \in ProjectIds : projects[id].slug = slug]
    ELSE NULL

getOrganizationProjects(organizationId) ==
    {id \in ProjectIds : projects[id].organizationId = organizationId}

getOrganizationById(id) == IF id \in organizations THEN [id |-> id] ELSE NULL

getOrganizationSubscription(organizationId) ==
    IF organizationId \in DOMAIN subscriptions THEN subscriptions[organizationId] ELSE NULL

getOrganizationMembers(organizationId) ==
    {m \in DOMAIN organizationMembers :
        organizationMembers[m].organizationId = organizationId}

\* Mutant: a membership of any organization counts.
getUserOrganizationRoleAnyOrg(userId, organizationId) ==
    LET rows == {m \in DOMAIN organizationMembers :
                    organizationMembers[m].userId = userId}
    IN  IF rows = {} THEN undefined
        ELSE organizationMembers[CHOOSE m \in rows : TRUE].role

getUserOrganizationRole(userId, organizationId) ==
    LET rows == {m \in getOrganizationMembers(organizationId) :
                    organizationMembers[m].userId = userId}
    IN  IF rows = {} THEN undefined
        ELSE organizationMembers[CHOOSE m \in rows : TRUE].role

getProjectCredentials(projectId) ==
    IF projectId \in DOMAIN projectCredentials THEN projectCredentials[projectId] ELSE NULL

getEdgeFunctionById(id) ==
    IF id \in DOMAIN edgeFunctions THEN edgeFunctions[id] ELSE NULL

(***************************************************************************)
(* checkOrganizationAccess: the error it throws, or Ok.                    *)
(***************************************************************************)
roleHierarchy == [owner |-> 3, admin |-> 2, member |-> 1]

\* Mutant: any membership passes, whatever the role required.
checkOrganizationAccessAnyRole(userId, organizationId, minRole) ==
    IF getUserOrganizationRole(userId, organizationId) = undefined
    THEN TRPCError("FORBIDDEN", "You do not have access to this organization")
    ELSE Ok

checkOrganizationAccess(userId, organizationId, minRole) ==
    LET role == getUserOrganizationRole(userId, organizationId)
    IN  IF role = undefined
        THEN TRPCError("FORBIDDEN", "You do not have access to this organization")
        ELSE IF roleHierarchy[role] < roleHierarchy[minRole]
        THEN TRPCError("FORBIDDEN", "This action requires role")
        ELSE Ok

(***************************************************************************)
(* Credentials: a signing secret is a fresh draw; a token carries its role *)
(* claim and the secret whose MAC signs it.                                *)
(***************************************************************************)
SignJWT(role, secret) == [role |-> role, sig |-> secret]

generateJwtTokens(jwtSecret) ==
    [anonKey |-> SignJWT("anon", jwtSecret),
     serviceKey |-> SignJWT("service_role", jwtSecret)]

(***************************************************************************)
(* Request slots.  A slot holds one request: the procedure, the caller,    *)
(* its input, the handler's local variables, the statement it is at, and,  *)
(* once it ended, what it returned or threw.  `writes` and `fault` record  *)
(* history: the tables the handler has written and the failure, if any,    *)
(* that a collaborator answered it with.                                   *)
(***************************************************************************)
Idle == [op |-> "none", pc |-> "idle", userId |-> 0, input |-> NULL,
         project |-> NULL, func |-> NULL, projectId |-> 0, slug |-> <<>>,
         credentials |-> NULL, result |-> NULL, writes |-> {}, fault |-> "none"]

InFlight(c) == request[c].pc \notin {"idle", "done"}

At(c, op, pc) == request[c].op = op /\ request[c].pc = pc

\* The slot after its handler returned or threw `result`.
Finish(c, result) ==
    request' = [request EXCEPT ![c] = [@ EXCEPT !.pc = "done", !.result = result]]

Goto(c, pc) == request' = [request EXCEPT ![c] = [@ EXCEPT !.pc = pc]]

\* The slot after a statement that wrote table `t`, now at `pc`.
Wrote(c, t, pc) ==
    request' = [request EXCEPT ![c] = [@ EXCEPT !.pc = pc, !.writes = @ \union {t}]]

\* A request arrives and takes the first free slot.
Receive(c, op, userId, input, pc) ==
    /\ ~InFlight(c)
    /\ \A d \in Calls : d < c => InFlight(d)
    /\ request' = [request EXCEPT ![c] =
                      [Idle EXCEPT !.op = op, !.pc = pc, !.userId = userId,
                                   !.input = input]]
    /\ started' = started + 1
    /\ UNCHANGED <<tables, issued>>

createAuditLog(userId, action, resourceId) ==
    auditLogs' = Append(auditLogs, [userId |-> userId, action |-> action,
                                    resourceId |-> resourceId])

updateProject(id, data) ==
    projects' = [projects EXCEPT ![id] =
                    [f \in DOMAIN @ |-> IF f \in DOMAIN data THEN data[f] ELSE @[f]]]

\* db.deleteProject is a soft delete.
deleteProject(id) == updateProject(id, [status |-> "deleted", deletedAt |-> TRUE])

\* The unique index on projects.slug rejects the insert of a second row.
slugIndexRejects(slug) == getProjectBySlug(slug) # NULL

\* Mutant: the comparison off by one.
projectLimitReachedOffByOne(existingProjects, limits) ==
    Cardinality(existingProjects) > limits.maxProjects

\* The quota comparison of projects.create.
projectLimitReached(existingProjects, limits) ==
    Cardinality(existingProjects) >= limits.maxProjects

(***************************************************************************)
(* projects.create                                                         *)
(***************************************************************************)
createReceive(c, users) ==
    \E u \in users, o \in organizations, n \in Names :
        Receive(c, "projects.create", u, [organizationId |-> o, name |-> n], "access")

createAccess(c) ==
    /\ At(c, "projects.create", "access")
    /\ LET e == checkOrganizationAccess(request[c].userId,
                                        request[c].input.organizationId, "admin")
       IN  IF e # Ok THEN Finish(c, e) ELSE Goto(c, "quota")
    /\ UNCHANGED <<tables, started, issued>>

\* Mutant: the slug is looked up before the limit is.
createQuotaAfterSlug(c) ==
    /\ At(c, "projects.create", "quota")
    /\ LET org == request[c].input.organizationId
           subscription == getOrganizationSubscription(org)
           limits == getPlanLimits(subscription.planType)
       IN  IF subscription = NULL
           THEN Finish(c, TRPCError("PRECONDITION_FAILED", "No active subscription"))
           ELSE IF limits = NULL
           THEN Finish(c, TRPCError("INTERNAL_SERVER_ERROR", "Plan limits not configured"))
           ELSE IF getProjectBySlug(generateSlug(request[c].input.name)) # NULL
           THEN Finish(c, TRPCError("CONFLICT", "Project with this name already exists"))
           ELSE IF projectLimitReached(getOrganizationProjects(org), limits)
           THEN Finish(c, TRPCError("PRECONDITION_FAILED", "Project limit reached"))
           ELSE Goto(c, "slug")
    /\ UNCHANGED <<tables, started, issued>>

createQuota(c) ==
    /\ At(c, "projects.create", "quota")
    /\ LET org == request[c].input.organizationId
           subscription == getOrganizationSubscription(org)
           limits == getPlanLimits(subscription.planType)
       IN  IF subscription = NULL
           THEN Finish(c, TRPCError("PRECONDITION_FAILED", "No active subscription"))
           ELSE IF limits = NULL
           THEN Finish(c, TRPCError("INTERNAL_SERVER_ERROR", "Plan limits not configured"))
           ELSE IF projectLimitReached(getOrganizationProjects(org), limits)
           THEN Finish(c, TRPCError("PRECONDITION_FAILED", "Project limit reached"))
           ELSE Goto(c, "slug")
    /\ UNCHANGED <<tables, started, issued>>

\* Mutant: the slug is not looked up before the insert.
createSlugUnchecked(c) ==
    /\ At(c, "projects.create", "slug")
    /\ request' = [request EXCEPT ![c] =
          [@ EXCEPT !.pc = "org", !.slug = generateSlug(request[c].input.name)]]
    /\ UNCHANGED <<tables, started, issued>>

createSlug(c) ==
    /\ At(c, "projects.create", "slug")
    /\ LET slug == generateSlug(request[c].input.name)
       IN  IF getProjectBySlug(slug) # NULL
           THEN Finish(c, TRPCError("CONFLICT", "Project with this name already exists"))
           ELSE request' = [request EXCEPT ![c] = [@ EXCEPT !.pc = "org", !.slug = slug]]
    /\ UNCHANGED <<tables, started, issued>>

createOrg(c) ==
    /\ At(c, "projects.create", "org")
    /\ IF getOrganizationById(request[c].input.organizationId) = NULL
       THEN Finish(c, TRPCError("NOT_FOUND", "Organization not found"))
       ELSE Goto(c, "insert")
    /\ UNCHANGED <<tables, started, issued>>

createInsert(c) ==
    /\ At(c, "projects.create", "insert")
    /\ IF slugIndexRejects(request[c].slug)
       THEN /\ Finish(c, PlainError("Duplicate entry"))
            /\ UNCHANGED projects
       ELSE /\ projects' = Append(projects,
                   [slug |-> request[c].slug,
                    organizationId |-> request[c].input.organizationId,
                    status |-> "provisioning", pausedAt |-> FALSE, deletedAt |-> FALSE])
            /\ request' = [request EXCEPT ![c] =
                   [@ EXCEPT !.pc = "provision", !.projectId = Len(projects) + 1,
                             !.writes = @ \union {"projects"}]]
    /\ UNCHANGED <<organizations, organizationMembers, subscriptions, planLimits, edgeFunctions,
                   projectCredentials, auditLogs, started, issued>>

\* provisionProject, then createProjectCredentials with what it returned.
createProvision(c) ==
    /\ At(c, "projects.create", "provision")
    /\ \/ /\ request' = [request EXCEPT ![c] = [@ EXCEPT !.pc = "catch", !.fault = "hook"]]
          /\ UNCHANGED <<projectCredentials, issued>>
       \/ /\ issued' = issued + 1
          /\ projectCredentials' = projectCredentials @@
                (request[c].projectId :>
                    ([jwtSecret |-> issued + 1] @@ generateJwtTokens(issued + 1)))
          /\ Wrote(c, "projectCredentials", "activate")
    /\ UNCHANGED <<organizations, organizationMembers, subscriptions, planLimits, edgeFunctions, projects,
                   auditLogs, started>>

\* Mutant: the project is not set active after its credentials are stored.
createActivateSkipped(c) ==
    /\ At(c, "projects.create", "activate")
    /\ Goto(c, "audit")
    /\ UNCHANGED <<tables, started, issued>>

createActivate(c) ==
    /\ At(c, "projects.create", "activate")
    /\ updateProject(request[c].projectId, [status |-> "active"])
    /\ Wrote(c, "projects", "audit")
    /\ UNCHANGED <<organizations, organizationMembers, subscriptions, planLimits, edgeFunctions,
                   projectCredentials, auditLogs, started, issued>>

createAudit(c) ==
    /\ At(c, "projects.create", "audit")
    /\ \/ /\ request' = [request EXCEPT ![c] = [@ EXCEPT !.pc = "catch", !.fault = "audit"]]
          /\ UNCHANGED auditLogs
       \/ /\ createAuditLog(request[c].userId, "project.created", request[c].projectId)
          /\ request' = [request EXCEPT ![c] =
                [@ EXCEPT !.pc = "done", !.result = Ok, !.writes = @ \union {"auditLogs"}]]
    /\ UNCHANGED <<organizations, organizationMembers, subscriptions, planLimits, edgeFunctions, projects,
                   projectCredentials, started, issued>>

\* Mutant: the catch block does not mark the project.
createCatchKeepsStatus(c) ==
    /\ At(c, "projects.create", "catch")
    /\ request' = [request EXCEPT ![c] =
          [@ EXCEPT !.pc = "done",
                    !.result = TRPCError("INTERNAL_SERVER_ERROR",
                                         "Failed to provision project infrastructure")]]
    /\ UNCHANGED <<tables, started, issued>>

createCatch(c) ==
    /\ At(c, "projects.create", "catch")
    /\ updateProject(request[c].projectId, [status |-> "deleted"])
    /\ request' = [request EXCEPT ![c] =
          [@ EXCEPT !.pc = "done", !.writes = @ \union {"projects"},
                    !.result = TRPCError("INTERNAL_SERVER_ERROR",
                                         "Failed to provision project infrastructure")]]
    /\ UNCHANGED <<organizations, organizationMembers, subscriptions, planLimits, edgeFunctions,
                   projectCredentials, auditLogs, started, issued>>

create(c) ==
    \/ createAccess(c) \/ createQuota(c) \/ createSlug(c) \/ createOrg(c)
    \/ createInsert(c) \/ createProvision(c) \/ createActivate(c)
    \/ createAudit(c) \/ createCatch(c)

(***************************************************************************)
(* checkProjectAccess, the first two statements of every handler that is   *)
(* given a project id: the project row is read (and kept), then the        *)
(* caller's role in the organization of that row.  edgeFunctions.deploy    *)
(* calls it with the project id of the function row it has read.           *)
(***************************************************************************)
ProjectOps == {"projects.pause", "projects.resume", "projects.delete",
               "projects.credentials.regenerateKeys",
               "projects.credentials.regenerateJwt"}

\* Project ids a caller may name: those of the rows, and one that has none.
ProjectIdInputs == 1..(Len(projects) + 1)

projectReceive(c, op, users) ==
    \E u \in users, id \in ProjectIdInputs :
        Receive(c, op, u, [id |-> id], "read")

checkProjectAccessRead(c) ==
    /\ request[c].pc = "read"
    /\ LET project == getProjectById(IF request[c].op = "edgeFunctions.deploy"
                                      THEN request[c].func.projectId
                                      ELSE request[c].input.id)
       IN  IF project = NULL
           THEN Finish(c, TRPCError("NOT_FOUND", "Project not found"))
           ELSE request' = [request EXCEPT ![c] =
                               [@ EXCEPT !.pc = "access", !.project = project]]
    /\ UNCHANGED <<tables, started, issued>>

\* Mutant: pause and resume do not look at the status.
afterAccessAnyStatus(r) ==
    CASE r.op \in {"projects.pause", "projects.resume"} -> [r EXCEPT !.pc = "hook"]
      [] r.op = "projects.delete" -> [r EXCEPT !.pc = "mark"]
      [] r.op = "projects.credentials.regenerateKeys" -> [r EXCEPT !.pc = "load"]
      [] r.op = "projects.credentials.regenerateJwt" -> [r EXCEPT !.pc = "rotate"]
      [] r.op = "edgeFunctions.deploy" -> [r EXCEPT !.pc = "update"]

\* What the handler does between the role check and its next await.
afterAccess(r) ==
    CASE r.op = "projects.pause" ->
            IF r.project.status # "active"
            THEN [r EXCEPT !.pc = "done",
                           !.result = TRPCError("PRECONDITION_FAILED", "Project is not active")]
            ELSE [r EXCEPT !.pc = "hook"]
      [] r.op = "projects.resume" ->
            IF r.project.status # "paused"
            THEN [r EXCEPT !.pc = "done",
                           !.result = TRPCError("PRECONDITION_FAILED", "Project is not paused")]
            ELSE [r EXCEPT !.pc = "hook"]
      [] r.op = "projects.delete" -> [r EXCEPT !.pc = "mark"]
      [] r.op = "projects.credentials.regenerateKeys" -> [r EXCEPT !.pc = "load"]
      [] r.op = "projects.credentials.regenerateJwt" -> [r EXCEPT !.pc = "rotate"]
      [] r.op = "edgeFunctions.deploy" -> [r EXCEPT !.pc = "update"]

checkProjectAccessRole(c) ==
    /\ request[c].op \in ProjectOps \union {"edgeFunctions.deploy"}
    /\ request[c].pc = "access"
    /\ LET e == checkOrganizationAccess(request[c].userId,
                                        request[c].project.organizationId, "admin")
       IN  IF e # Ok THEN Finish(c, e)
           ELSE request' = [request EXCEPT ![c] = afterAccess(@)]
    /\ UNCHANGED <<tables, started, issued>>

checkProjectAccess(c) == checkProjectAccessRead(c) \/ checkProjectAccessRole(c)

(***************************************************************************)
(* projects.pause and projects.resume                                      *)
(***************************************************************************)
pauseReceive(c, users) == projectReceive(c, "projects.pause", users)

\* pauseProject (the hook), then the status write.
pauseHook(c) ==
    /\ At(c, "projects.pause", "hook")
    /\ \/ /\ request' = [request EXCEPT ![c] =
                [@ EXCEPT !.pc = "done", !.fault = "hook", !.result = PlainError("pause")]]
          /\ UNCHANGED projects
       \/ /\ updateProject(request[c].input.id, [status |-> "paused", pausedAt |-> TRUE])
          /\ Wrote(c, "projects", "audit")
    /\ UNCHANGED <<organizations, organizationMembers, subscriptions, planLimits, edgeFunctions,
                   projectCredentials, auditLogs, started, issued>>

\* The audit write that ends pause, resume and the credential rotations:
\* nothing catches its failure.
auditAndReturn(c, action) ==
    /\ request[c].pc = "audit"
    /\ \/ /\ request' = [request EXCEPT ![c] =
                [@ EXCEPT !.pc = "done", !.fault = "audit", !.result = PlainError("audit")]]
          /\ UNCHANGED auditLogs
       \/ /\ createAuditLog(request[c].userId, action, request[c].input.id)
          /\ request' = [request EXCEPT ![c] =
                [@ EXCEPT !.pc = "done", !.result = Ok, !.writes = @ \union {"auditLogs"}]]
    /\ UNCHANGED <<organizations, organizationMembers, subscriptions, planLimits, edgeFunctions, projects,
                   projectCredentials, started, issued>>

pauseAudit(c) == request[c].op = "projects.pause" /\ auditAndReturn(c, "project.paused")

pause(c) == pauseHook(c) \/ pauseAudit(c)

resumeReceive(c, users) == projectReceive(c, "projects.resume", users)

resumeHook(c) ==
    /\ At(c, "projects.resume", "hook")
    /\ \/ /\ request' = [request EXCEPT ![c] =
                [@ EXCEPT !.pc = "done", !.fault = "hook", !.result = PlainError("resume")]]
          /\ UNCHANGED projects
       \/ /\ updateProject(request[c].input.id, [status |-> "active", pausedAt |-> FALSE])
          /\ Wrote(c, "projects", "audit")
    /\ UNCHANGED <<organizations, organizationMembers, subscriptions, planLimits, edgeFunctions,
                   projectCredentials, auditLogs, started, issued>>

resumeAudit(c) == request[c].op = "projects.resume" /\ auditAndReturn(c, "project.resumed")

resume(c) == resumeHook(c) \/ resumeAudit(c)

(***************************************************************************)
(* projects.delete                                                         *)
(***************************************************************************)
deleteReceive(c, users) == projectReceive(c, "projects.delete", users)

\* Mutant: the handler goes to the hook without marking the project.
deleteMarkSkipped(c) ==
    /\ At(c, "projects.delete", "mark")
    /\ Goto(c, "deprovision")
    /\ UNCHANGED <<tables, started, issued>>

deleteMark(c) ==
    /\ At(c, "projects.delete", "mark")
    /\ updateProject(request[c].input.id, [status |-> "deleting"])
    /\ Wrote(c, "projects", "deprovision")
    /\ UNCHANGED <<organizations, organizationMembers, subscriptions, planLimits, edgeFunctions,
                   projectCredentials, auditLogs, started, issued>>

\* deprovisionProject (the hook), then db.deleteProject.
deleteDeprovision(c) ==
    /\ At(c, "projects.delete", "deprovision")
    /\ \/ /\ request' = [request EXCEPT ![c] = [@ EXCEPT !.pc = "catch", !.fault = "hook"]]
          /\ UNCHANGED projects
       \/ /\ deleteProject(request[c].input.id)
          /\ Wrote(c, "projects", "audit")
    /\ UNCHANGED <<organizations, organizationMembers, subscriptions, planLimits, edgeFunctions,
                   projectCredentials, auditLogs, started, issued>>

deleteAudit(c) ==
    /\ At(c, "projects.delete", "audit")
    /\ \/ /\ request' = [request EXCEPT ![c] = [@ EXCEPT !.pc = "catch", !.fault = "audit"]]
          /\ UNCHANGED auditLogs
       \/ /\ createAuditLog(request[c].userId, "project.deleted", request[c].input.id)
          /\ request' = [request EXCEPT ![c] =
                [@ EXCEPT !.pc = "done", !.result = Ok, !.writes = @ \union {"auditLogs"}]]
    /\ UNCHANGED <<organizations, organizationMembers, subscriptions, planLimits, edgeFunctions, projects,
                   projectCredentials, started, issued>>

\* Mutant: the catch block leaves the status as it finds it.
deleteCatchKeepsStatus(c) ==
    /\ At(c, "projects.delete", "catch")
    /\ Finish(c, TRPCError("INTERNAL_SERVER_ERROR", "Failed to delete project"))
    /\ UNCHANGED <<tables, started, issued>>

deleteCatch(c) ==
    /\ At(c, "projects.delete", "catch")
    /\ updateProject(request[c].input.id, [status |-> "active"])
    /\ request' = [request EXCEPT ![c] =
          [@ EXCEPT !.pc = "done", !.writes = @ \union {"projects"},
                    !.result = TRPCError("INTERNAL_SERVER_ERROR", "Failed to delete project")]]
    /\ UNCHANGED <<organizations, organizationMembers, subscriptions, planLimits, edgeFunctions,
                   projectCredentials, auditLogs, started, issued>>

delete(c) == deleteMark(c) \/ deleteDeprovision(c) \/ deleteAudit(c) \/ deleteCatch(c)

(***************************************************************************)
(* projects.credentials.regenerateKeys and regenerateJwt                   *)
(***************************************************************************)
\* UPDATE projectCredentials SET data WHERE projectId: no row, nothing updated.
updateProjectCredentials(projectId, data) ==
    projectCredentials' =
        [p \in DOMAIN projectCredentials |->
            IF p = projectId
            THEN [f \in DOMAIN projectCredentials[p] |->
                    IF f \in DOMAIN data THEN data[f] ELSE projectCredentials[p][f]]
            ELSE projectCredentials[p]]

regenerateKeysReceive(c, users) ==
    projectReceive(c, "projects.credentials.regenerateKeys", users)

regenerateKeysLoad(c) ==
    /\ At(c, "projects.credentials.regenerateKeys", "load")
    /\ LET credentials == getProjectCredentials(request[c].input.id)
       IN  IF credentials = NULL
           THEN Finish(c, TRPCError("NOT_FOUND", "Credentials not found"))
           ELSE request' = [request EXCEPT ![c] =
                               [@ EXCEPT !.pc = "update", !.credentials = credentials]]
    /\ UNCHANGED <<tables, started, issued>>

\* Mutant: the keys are signed with another secret than the one loaded.
regenerateKeysUpdateOtherSecret(c) ==
    /\ At(c, "projects.credentials.regenerateKeys", "update")
    /\ updateProjectCredentials(request[c].input.id, generateJwtTokens(0))
    /\ request' = [request EXCEPT ![c] =
          [@ EXCEPT !.pc = "audit", !.writes = @ \union {"projectCredentials"},
                    !.credentials = generateJwtTokens(0)]]
    /\ UNCHANGED <<organizations, organizationMembers, subscriptions, planLimits, edgeFunctions, projects,
                   auditLogs, started, issued>>

\* regenerateApiKeys(credentials.jwtSecret), then the update of the two keys.
regenerateKeysUpdate(c) ==
    /\ At(c, "projects.credentials.regenerateKeys", "update")
    /\ updateProjectCredentials(request[c].input.id,
                                generateJwtTokens(request[c].credentials.jwtSecret))
    /\ request' = [request EXCEPT ![c] =
          [@ EXCEPT !.pc = "audit", !.writes = @ \union {"projectCredentials"},
                    !.credentials = generateJwtTokens(request[c].credentials.jwtSecret)]]
    /\ UNCHANGED <<organizations, organizationMembers, subscriptions, planLimits, edgeFunctions, projects,
                   auditLogs, started, issued>>

regenerateKeysAudit(c) ==
    /\ request[c].op = "projects.credentials.regenerateKeys"
    /\ auditAndReturn(c, "project.credentials.regenerated")

regenerateKeys(c) ==
    regenerateKeysLoad(c) \/ regenerateKeysUpdate(c) \/ regenerateKeysAudit(c)

regenerateJwtReceive(c, users) ==
    projectReceive(c, "projects.credentials.regenerateJwt", users)

\* regenerateJwtSecret(): a fresh secret and the two keys signed with it.
regenerateJwtSecret(n) == [jwtSecret |-> n] @@ generateJwtTokens(n)

\* Mutant: the new keys are stored, the new secret is not.
regenerateJwtRotateKeysOnly(c) ==
    /\ At(c, "projects.credentials.regenerateJwt", "rotate")
    /\ issued' = issued + 1
    /\ updateProjectCredentials(request[c].input.id, generateJwtTokens(issued + 1))
    /\ request' = [request EXCEPT ![c] =
          [@ EXCEPT !.pc = "audit", !.writes = @ \union {"projectCredentials"},
                    !.credentials = regenerateJwtSecret(issued + 1)]]
    /\ UNCHANGED <<organizations, organizationMembers, subscriptions, planLimits, edgeFunctions, projects,
                   auditLogs, started>>

regenerateJwtRotate(c) ==
    /\ At(c, "projects.credentials.regenerateJwt", "rotate")
    /\ issued' = issued + 1
    /\ updateProjectCredentials(request[c].input.id, regenerateJwtSecret(issued + 1))
    /\ request' = [request EXCEPT ![c] =
          [@ EXCEPT !.pc = "audit", !.writes = @ \union {"projectCredentials"},
                    !.credentials = regenerateJwtSecret(issued + 1)]]
    /\ UNCHANGED <<organizations, organizationMembers, subscriptions, planLimits, edgeFunctions, projects,
                   auditLogs, started>>

regenerateJwtAudit(c) ==
    /\ request[c].op = "projects.credentials.regenerateJwt"
    /\ auditAndReturn(c, "project.jwt.regenerated")

regenerateJwt(c) == regenerateJwtRotate(c) \/ regenerateJwtAudit(c)

(***************************************************************************)
(* organizations.members.add, updateRole and remove                        *)
(***************************************************************************)
Roles == {"owner", "admin", "member"}

\* Member ids a caller may name: those ever inserted, and one that never was.
MemberIdInputs == 1..4

membersAddReceive(c, users) ==
    \E u \in users, o \in organizations, role \in {"admin", "member"} :
        Receive(c, "organizations.members.add", u,
                [organizationId |-> o, role |-> role], "access")

\* The invitation is not implemented: after the check the handler returns.
membersAddAccess(c) ==
    /\ At(c, "organizations.members.add", "access")
    /\ Finish(c, checkOrganizationAccess(request[c].userId,
                                         request[c].input.organizationId, "admin"))
    /\ UNCHANGED <<tables, started, issued>>

membersUpdateRoleReceive(c, users) ==
    \E u \in users, m \in MemberIdInputs, role \in Roles :
        Receive(c, "organizations.members.updateRole", u,
                [memberId |-> m, role |-> role], "members")

\* The handler passes input.memberId where an organization id is expected.
membersUpdateRoleMembers(c) ==
    /\ At(c, "organizations.members.updateRole", "members")
    /\ IF getOrganizationMembers(request[c].input.memberId) = {}
       THEN Finish(c, TRPCError("NOT_FOUND", "Member not found"))
       ELSE Goto(c, "access")
    /\ UNCHANGED <<tables, started, issued>>

membersUpdateRoleAccess(c) ==
    /\ At(c, "organizations.members.updateRole", "access")
    /\ LET e == checkOrganizationAccess(request[c].userId,
                                        request[c].input.memberId, "owner")
       IN  IF e # Ok THEN Finish(c, e) ELSE Goto(c, "update")
    /\ UNCHANGED <<tables, started, issued>>

updateOrganizationMemberRole(memberId, role) ==
    organizationMembers' =
        [m \in DOMAIN organizationMembers |->
            IF m = memberId THEN [organizationMembers[m] EXCEPT !.role = role]
            ELSE organizationMembers[m]]

membersUpdateRoleUpdate(c) ==
    /\ At(c, "organizations.members.updateRole", "update")
    /\ updateOrganizationMemberRole(request[c].input.memberId, request[c].input.role)
    /\ request' = [request EXCEPT ![c] =
          [@ EXCEPT !.pc = "done", !.result = Ok,
                    !.writes = @ \union {"organizationMembers"}]]
    /\ UNCHANGED <<organizations, subscriptions, planLimits, edgeFunctions, projects, projectCredentials,
                   auditLogs, started, issued>>

membersRemoveReceive(c, users) ==
    \E u \in users, m \in MemberIdInputs :
        Receive(c, "organizations.members.remove", u, [memberId |-> m], "remove")

removeOrganizationMember(memberId) ==
    organizationMembers' =
        [m \in DOMAIN organizationMembers \ {memberId} |-> organizationMembers[m]]

membersRemoveRemove(c) ==
    /\ At(c, "organizations.members.remove", "remove")
    /\ removeOrganizationMember(request[c].input.memberId)
    /\ request' = [request EXCEPT ![c] =
          [@ EXCEPT !.pc = "done", !.result = Ok,
                    !.writes = @ \union {"organizationMembers"}]]
    /\ UNCHANGED <<organizations, subscriptions, planLimits, edgeFunctions, projects, projectCredentials,
                   auditLogs, started, issued>>

members(c) ==
    \/ membersAddAccess(c)
    \/ membersUpdateRoleMembers(c) \/ membersUpdateRoleAccess(c)
    \/ membersUpdateRoleUpdate(c)
    \/ membersRemoveRemove(c)

(***************************************************************************)
(* organizations.delete                                                    *)
(***************************************************************************)
organizationsDeleteReceive(c, users) ==
    \E u \in users, o \in organizations :
        Receive(c, "organizations.delete", u, [id |-> o], "access")

organizationsDeleteAccess(c) ==
    /\ At(c, "organizations.delete", "access")
    /\ LET e == checkOrganizationAccess(request[c].userId, request[c].input.id, "owner")
       IN  IF e # Ok THEN Finish(c, e) ELSE Goto(c, "projects")
    /\ UNCHANGED <<tables, started, issued>>

organizationsDeleteProjects(c) ==
    /\ At(c, "organizations.delete", "projects")
    /\ IF Cardinality(getOrganizationProjects(request[c].input.id)) > 0
       THEN Finish(c, TRPCError("PRECONDITION_FAILED",
               "Cannot delete organization with existing projects. Delete all projects first."))
       ELSE Goto(c, "delete")
    /\ UNCHANGED <<tables, started, issued>>

deleteOrganization(id) == organizations' = organizations \ {id}

organizationsDeleteDelete(c) ==
    /\ At(c, "organizations.delete", "delete")
    /\ deleteOrganization(request[c].input.id)
    /\ Wrote(c, "organizations", "audit")
    /\ UNCHANGED <<organizationMembers, subscriptions, planLimits, edgeFunctions, projects,
                   projectCredentials, auditLogs, started, issued>>

organizationsDeleteAudit(c) ==
    /\ request[c].op = "organizations.delete"
    /\ auditAndReturn(c, "organization.deleted")

organizationsDelete(c) ==
    \/ organizationsDeleteAccess(c) \/ organizationsDeleteProjects(c)
    \/ organizationsDeleteDelete(c) \/ organizationsDeleteAudit(c)

(***************************************************************************)
(* edgeFunctions.deploy                                                    *)
(***************************************************************************)
\* Function ids a caller may name: those of the rows, and one that has none.
FunctionIdInputs == 1..(Len(edgeFunctions) + 1)

deployReceive(c, users) ==
    \E u \in users, id \in FunctionIdInputs :
        Receive(c, "edgeFunctions.deploy", u, [id |-> id], "function")

deployFunction(c) ==
    /\ At(c, "edgeFunctions.deploy", "function")
    /\ LET func == getEdgeFunctionById(request[c].input.id)
       IN  IF func = NULL
           THEN Finish(c, TRPCError("NOT_FOUND", "Function not found"))
           ELSE request' = [request EXCEPT ![c] = [@ EXCEPT !.pc = "read", !.func = func]]
    /\ UNCHANGED <<tables, started, issued>>

updateEdgeFunction(id, data) ==
    edgeFunctions' =
        [i \in DOMAIN edgeFunctions |->
            IF i = id
            THEN [f \in DOMAIN edgeFunctions[i] |->
                     IF f \in DOMAIN data THEN data[f] ELSE edgeFunctions[i][f]]
            ELSE edgeFunctions[i]]

\* The version written and returned is the one read at the start plus one.
deployUpdate(c) ==
    /\ At(c, "edgeFunctions.deploy", "update")
    /\ updateEdgeFunction(request[c].input.id,
                          [status |-> "active", version |-> request[c].func.version + 1])
    /\ request' = [request EXCEPT ![c] =
                      [@ EXCEPT !.pc = "done", !.result = Ok,
                                !.writes = @ \union {"edgeFunctions"}]]
    /\ UNCHANGED <<organizations, organizationMembers, subscriptions, planLimits,
                   projects, projectCredentials, auditLogs, started, issued>>

deploy(c) == deployFunction(c) \/ deployUpdate(c)

(***************************************************************************)
(* The system: a seeded platform (organization 1 on the free plan, owned   *)
(* by user 1, with user 2 as plain member; organization 2, owned by user   *)
(* 3, inserted without subscription) serving requests.                     *)
(***************************************************************************)
Init ==
    /\ organizations = {1, 2}
    /\ organizationMembers =
          (1 :> [organizationId |-> 1, userId |-> 1, role |-> "owner"]) @@
          (2 :> [organizationId |-> 1, userId |-> 2, role |-> "member"]) @@
          (3 :> [organizationId |-> 2, userId |-> 3, role |-> "owner"])
    /\ subscriptions = (1 :> [planType |-> "free"])
    /\ planLimits = plans
    /\ edgeFunctions = <<>>
    /\ projects = <<>>
    /\ projectCredentials = <<>>
    /\ auditLogs = <<>>
    /\ request = [c \in Calls |-> Idle]
    /\ started = 0
    /\ issued = 0

\* The platform after user 1 created project "c" in organization 1.
InitOneProject ==
    /\ organizations = {1, 2}
    /\ organizationMembers =
          (1 :> [organizationId |-> 1, userId |-> 1, role |-> "owner"]) @@
          (2 :> [organizationId |-> 1, userId |-> 2, role |-> "member"]) @@
          (3 :> [organizationId |-> 2, userId |-> 3, role |-> "owner"])
    /\ subscriptions = (1 :> [planType |-> "free"])
    /\ planLimits = plans
    /\ edgeFunctions = <<>>
    /\ projects = <<[slug |-> <<"c">>, organizationId |-> 1, status |-> "active",
                     pausedAt |-> FALSE, deletedAt |-> FALSE]>>
    /\ projectCredentials = (1 :> regenerateJwtSecret(1))
    /\ auditLogs = <<[userId |-> 1, action |-> "project.created", resourceId |-> 1]>>
    /\ request = [c \in Calls |-> Idle]
    /\ started = 0
    /\ issued = 1

\* The seeded project with one edge function, created and not yet deployed.
InitOneFunction ==
    /\ organizations = {1, 2}
    /\ organizationMembers =
          (1 :> [organizationId |-> 1, userId |-> 1, role |-> "owner"]) @@
          (2 :> [organizationId |-> 1, userId |-> 2, role |-> "member"]) @@
          (3 :> [organizationId |-> 2, userId |-> 3, role |-> "owner"])
    /\ subscriptions = (1 :> [planType |-> "free"])
    /\ planLimits = plans
    /\ edgeFunctions = <<[projectId |-> 1, status |-> "inactive", version |-> 1]>>
    /\ projects = <<[slug |-> <<"c">>, organizationId |-> 1, status |-> "active",
                     pausedAt |-> FALSE, deletedAt |-> FALSE]>>
    /\ projectCredentials = (1 :> regenerateJwtSecret(1))
    /\ auditLogs = <<[userId |-> 1, action |-> "project.created", resourceId |-> 1]>>
    /\ request = [c \in Calls |-> Idle]
    /\ started = 0
    /\ issued = 1

\* The platform with organization 2 subscribed to a plan whose limit row
\* says -1, inserted by db.createPlanLimit.
InitUnlimited ==
    /\ organizations = {1, 2}
    /\ organizationMembers =
          (1 :> [organizationId |-> 1, userId |-> 1, role |-> "owner"]) @@
          (2 :> [organizationId |-> 1, userId |-> 2, role |-> "member"]) @@
          (3 :> [organizationId |-> 2, userId |-> 3, role |-> "owner"])
    /\ subscriptions = (1 :> [planType |-> "free"]) @@ (2 :> [planType |-> "enterprise"])
    /\ planLimits = [plans EXCEPT !.enterprise = [maxProjects |-> -1]]
    /\ edgeFunctions = <<>>
    /\ projects = <<>>
    /\ projectCredentials = <<>>
    /\ auditLogs = <<>>
    /\ request = [c \in Calls |-> Idle]
    /\ started = 0
    /\ issued = 0

\* The callers of the overlapping requests: the owner of organization 1.
Admins == {1}

\* The owners of the two organizations.
Owners == {1, 3}

Quiet == \A c \in Calls : ~InFlight(c)

\* The project lifecycle, requests overlapping.
Next ==
    \E c \in Calls :
        \/ started < MaxOps /\ (\/ createReceive(c, Admins) \/ pauseReceive(c, Admins)
                                \/ resumeReceive(c, Admins) \/ deleteReceive(c, Admins))
        \/ create(c)
        \/ checkProjectAccess(c)
        \/ pause(c)
        \/ resume(c)
        \/ delete(c)

Spec == InitOneProject /\ [][Next]_vars

\* Creates and deletes by the owner, requests overlapping.
NextLive ==
    \E c \in Calls :
        \/ started < MaxOps /\ (\/ Receive(c, "projects.create", 1,
                                           [organizationId |-> 1, name |-> <<"b">>], "access")
                                \/ deleteReceive(c, Admins))
        \/ create(c)
        \/ checkProjectAccess(c)
        \/ delete(c)

\* The handlers run on the event loop of one server process: a handler that
\* waits on the database or on a hook is resumed when the answer arrives.
Fairness ==
    \A c \in Calls : WF_vars(create(c) \/ checkProjectAccess(c) \/ delete(c))

SpecLive == InitOneProject /\ [][NextLive]_vars /\ Fairness

\* Every project procedure, called by anyone, one request at a time.
NextSeq ==
    \/ /\ Quiet
       /\ started < SeqMaxOps
       /\ \/ createReceive(1, Users) \/ pauseReceive(1, Users)
          \/ resumeReceive(1, Users) \/ deleteReceive(1, Users)
          \/ regenerateKeysReceive(1, Users) \/ regenerateJwtReceive(1, Users)
    \/ create(1)
    \/ checkProjectAccess(1)
    \/ pause(1)
    \/ resume(1)
    \/ delete(1)
    \/ regenerateKeys(1)
    \/ regenerateJwt(1)

SpecSeq == Init /\ [][NextSeq]_vars

\* Creation of projects and rotation of their credentials by the owner, one
\* request at a time.
NextCreds ==
    \/ /\ Quiet
       /\ started < SeqMaxOps
       /\ \/ createReceive(1, Admins)
          \/ regenerateKeysReceive(1, Admins) \/ regenerateJwtReceive(1, Admins)
    \/ create(1)
    \/ checkProjectAccess(1)
    \/ regenerateKeys(1)
    \/ regenerateJwt(1)

SpecCreds == Init /\ [][NextCreds]_vars

\* Rotations of the credentials of the seeded project by its owner, requests
\* overlapping.
NextRotate ==
    \E c \in Calls :
        \/ /\ started < MaxOps
           /\ (regenerateKeysReceive(c, Admins) \/ regenerateJwtReceive(c, Admins))
        \/ checkProjectAccess(c)
        \/ regenerateKeys(c)
        \/ regenerateJwt(c)

SpecRotate == InitOneProject /\ [][NextRotate]_vars

\* Creation and deletion of projects and deletion of organizations by their
\* owners, requests overlapping.
NextOrgs ==
    \E c \in Calls :
        \/ started < MaxOps /\ (\/ createReceive(c, Owners) \/ deleteReceive(c, Owners)
                                \/ organizationsDeleteReceive(c, Owners))
        \/ create(c)
        \/ checkProjectAccess(c)
        \/ delete(c)
        \/ organizationsDelete(c)

SpecOrgs == Init /\ [][NextOrgs]_vars

\* Creation and deletion of projects by the owners, one request at a time.
NextQuota ==
    \/ /\ Quiet
       /\ started < SeqMaxOps
       /\ (createReceive(1, Owners) \/ deleteReceive(1, Owners))
    \/ create(1)
    \/ checkProjectAccess(1)
    \/ delete(1)

SpecQuota == Init /\ [][NextQuota]_vars

\* Creation of projects by the owner of organization 1 under names of any
\* length, one request at a time.
createReceiveLong(c) ==
    \E n \in Names \union LongNames :
        Receive(c, "projects.create", 1, [organizationId |-> 1, name |-> n], "access")

NextSlug ==
    \/ /\ Quiet
       /\ started < SeqMaxOps
       /\ (createReceiveLong(1) \/ deleteReceive(1, Admins))
    \/ create(1)
    \/ checkProjectAccess(1)
    \/ delete(1)

SpecSlug == Init /\ [][NextSlug]_vars

SpecUnlimited == InitUnlimited /\ [][NextQuota]_vars

\* Membership management, called by anyone, one request at a time.
NextMembers ==
    \/ /\ Quiet
       /\ started < SeqMaxOps
       /\ \/ membersAddReceive(1, Users)
          \/ membersUpdateRoleReceive(1, Users)
          \/ membersRemoveReceive(1, Users)
    \/ members(1)

SpecMembers == Init /\ [][NextMembers]_vars

\* Deployments of edge functions, called by anyone, requests overlapping.
NextDeploy ==
    \E c \in Calls :
        \/ started < MaxOps /\ deployReceive(c, Users)
        \/ deploy(c)
        \/ checkProjectAccess(c)

SpecDeploy == InitOneFunction /\ [][NextDeploy]_vars

(***************************************************************************)
(* Properties.                                                             *)
(***************************************************************************)
Done(c) == request[c].pc = "done"

\* The rank of a user's membership in an organization; 0 without membership.
memberRank(userId, organizationId) ==
    IF \E m \in DOMAIN organizationMembers :
          /\ organizationMembers[m].userId = userId
          /\ organizationMembers[m].organizationId = organizationId
    THEN LET m == CHOOSE m \in DOMAIN organizationMembers :
                    /\ organizationMembers[m].userId = userId
                    /\ organizationMembers[m].organizationId = organizationId
         IN  CASE organizationMembers[m].role = "owner" -> 3
               [] organizationMembers[m].role = "admin" -> 2
               [] organizationMembers[m].role = "member" -> 1
    ELSE 0

auditCount(action, resourceId) ==
    Cardinality({i \in DOMAIN auditLogs :
                    auditLogs[i].action = action /\ auditLogs[i].resourceId = resourceId})

ProvisionFailed == TRPCError("INTERNAL_SERVER_ERROR", "Failed to provision project infrastructure")

DeleteFailed == TRPCError("INTERNAL_SERVER_ERROR", "Failed to delete project")

\* The status changes of the lifecycle state machine and its two rollbacks.
LegalTransitions ==
    {<<"provisioning", "active">>, <<"active", "paused">>, <<"paused", "active">>,
     <<"provisioning", "deleting">>, <<"active", "deleting">>, <<"paused", "deleting">>,
     <<"deleting", "deleted">>,
     <<"provisioning", "deleted">>, <<"deleting", "active">>}

\* C1: every change of a project's status, in any interleaving of create,
\* pause, resume and delete, is a transition of the lifecycle state machine
\* or one of its two rollbacks; nothing leads out of deleted.
C1_LegalTransitions ==
    [][\A id \in DOMAIN projects :
          projects'[id].status # projects[id].status
              => <<projects[id].status, projects'[id].status>> \in LegalTransitions]_vars

\* C2: when projects.create returns after the provisioner failed, the row it
\* inserted is deleted, has no credentials and no project.created audit
\* entry, and the caller gets the provisioning INTERNAL_SERVER_ERROR.
C2_ProvisionRollback ==
    [][\A c \in Calls :
          (/\ request[c].op = "projects.create"
           /\ request[c].fault = "hook"
           /\ ~Done(c)
           /\ request'[c].pc = "done")
              => /\ request'[c].result = ProvisionFailed
                 /\ projects'[request[c].projectId].status = "deleted"
                 /\ request[c].projectId \notin DOMAIN projectCredentials'
                 /\ \A i \in DOMAIN auditLogs' :
                       ~(/\ auditLogs'[i].action = "project.created"
                         /\ auditLogs'[i].resourceId = request[c].projectId)]_vars

C2_Witness ==
    \E c \in Calls :
        /\ Done(c)
        /\ request[c].op = "projects.create"
        /\ request[c].fault = "hook"
        /\ request[c].projectId \in DOMAIN projects

\* C3: a failed audit write does not undo the transition: after create the
\* project is active, after delete it is deleted, and the caller is not
\* given the rollback's error.
C3_AuditFailureKeepsOutcome ==
    \A c \in Calls :
        (Done(c) /\ request[c].fault = "audit")
            => /\ request[c].op = "projects.create"
                    => /\ projects[request[c].projectId].status = "active"
                       /\ request[c].result # ProvisionFailed
               /\ request[c].op = "projects.delete"
                    => /\ projects[request[c].input.id].status = "deleted"
                       /\ request[c].result # DeleteFailed

(***************************************************************************)
(* Access control of the project procedures.                               *)
(***************************************************************************)
ProjectMutations == ProjectOps \union {"projects.create"}

\* The request names a project that has no row.
NoSuchProject(r) == r.op \in ProjectOps /\ r.input.id \notin DOMAIN projects

\* The organization that owns what the request is about.
owningOrganization(r) ==
    IF r.op = "projects.create" THEN r.input.organizationId
    ELSE projects[r.input.id].organizationId

\* The caller has no membership in the owning organization, or ranks below admin.
BelowAdmin(r) ==
    /\ r.op \in ProjectMutations
    /\ ~NoSuchProject(r)
    /\ memberRank(r.userId, owningOrganization(r)) < 2

\* C4: a project-scoped mutation by a caller without membership in the owning
\* organization or below admin ends FORBIDDEN, one naming a project without
\* row ends NOT_FOUND, and no step of such a request changes a table.
C4_DeniedChangesNothing ==
    [][\A c \in Calls :
          (InFlight(c) /\ (BelowAdmin(request[c]) \/ NoSuchProject(request[c])))
              => /\ UNCHANGED tables
                 /\ request'[c].pc = "done"
                      => request'[c].result.code =
                            IF NoSuchProject(request[c]) THEN "NOT_FOUND" ELSE "FORBIDDEN"
                 /\ request'[c].writes = {}]_vars

C4_Witness ==
    /\ \E c \in Calls :
          /\ Done(c)
          /\ request[c].op = "projects.credentials.regenerateJwt"
          /\ request[c].result.code = "FORBIDDEN"
          /\ request[c].userId = 2
          /\ request[c].input.id \in DOMAIN projectCredentials
    /\ Len(auditLogs) = 1

(***************************************************************************)
(* Membership management.                                                  *)
(***************************************************************************)
MemberOps == {"organizations.members.updateRole", "organizations.members.remove"}

\* C5: the membership table changes only by a request whose caller is, in the
\* organization of the membership row it names, at least admin (owner for a
\* role change).
C5_MembershipGuarded ==
    [][organizationMembers' # organizationMembers
          => \E c \in Calls :
                /\ request[c].op \in MemberOps
                /\ InFlight(c)
                /\ request'[c].pc = "done"
                /\ request[c].input.memberId \in DOMAIN organizationMembers
                /\ memberRank(request[c].userId,
                       organizationMembers[request[c].input.memberId].organizationId)
                     >= IF request[c].op = "organizations.members.remove" THEN 2 ELSE 3]_vars

(***************************************************************************)
(* Quota and slug uniqueness of projects.create, one request at a time.    *)
(***************************************************************************)
LimitReached == TRPCError("PRECONDITION_FAILED", "Project limit reached")

SlugTaken == TRPCError("CONFLICT", "Project with this name already exists")

notDeleted(organizationId) ==
    {id \in DOMAIN projects : /\ projects[id].organizationId = organizationId
                              /\ projects[id].status # "deleted"}

NoneDeleted(organizationId) ==
    \A id \in DOMAIN projects :
        projects[id].organizationId = organizationId => projects[id].status # "deleted"

maxProjectsOf(organizationId) == planLimits[subscriptions[organizationId].planType].maxProjects

\* A projects.create by an admin of a subscribed organization has returned,
\* no collaborator having failed it.
CreateReturned(c) ==
    /\ Done(c)
    /\ request[c].op = "projects.create"
    /\ request[c].fault = "none"
    /\ request[c].input.organizationId \in DOMAIN subscriptions
    /\ memberRank(request[c].userId, request[c].input.organizationId) >= 2

\* C6: while none of the organization's projects is deleted, creates with
\* fresh slugs succeed up to maxProjects projects, each left active, and a
\* create beyond that ends PRECONDITION_FAILED without inserting a row; the
\* organization never has more than maxProjects projects.
C6_QuotaBoundary ==
    /\ \A o \in DOMAIN subscriptions :
          NoneDeleted(o) => Cardinality(notDeleted(o)) <= maxProjectsOf(o)
    /\ \A c \in Calls :
          (CreateReturned(c) /\ NoneDeleted(request[c].input.organizationId))
              => LET o == request[c].input.organizationId
                     n == Cardinality(notDeleted(o))
                 IN  /\ request[c].result \in {Ok, LimitReached, SlugTaken}
                     /\ request[c].result = Ok
                          => /\ n <= maxProjectsOf(o)
                             /\ request[c].projectId \in DOMAIN projects
                             /\ projects[request[c].projectId].status = "active"
                     /\ request[c].result = LimitReached
                          <=> (n >= maxProjectsOf(o) /\ request[c].projectId = 0)
                     /\ request[c].result # Ok
                          => request[c].projectId = 0 /\ request[c].writes = {}

C6_Witness ==
    \E c \in Calls :
        /\ CreateReturned(c)
        /\ request[c].result = LimitReached
        /\ NoneDeleted(1)
        /\ Cardinality(notDeleted(1)) = FreeMaxProjects
        /\ \A id \in DOMAIN projects : projects[id].status = "active"

\* C7: the quota counts only the projects that are not deleted: a create is
\* refused for the limit only when the organization has maxProjects projects
\* that are not deleted.
C7_QuotaIgnoresDeleted ==
    \A c \in Calls :
        (CreateReturned(c) /\ request[c].result = LimitReached)
            => Cardinality(notDeleted(request[c].input.organizationId))
                 >= maxProjectsOf(request[c].input.organizationId)

\* C8: no two project rows share a slug, and a create whose name gives the
\* slug of an existing row ends CONFLICT, having inserted no row, no
\* credentials and no audit entry; the storage never has to reject it.
C8_SlugUnique ==
    /\ \A i, j \in DOMAIN projects : projects[i].slug = projects[j].slug => i = j
    /\ \A c \in Calls :
          (Done(c) /\ request[c].op = "projects.create")
              => /\ request[c].result.code # "ERROR"
                 /\ request[c].result = SlugTaken
                      => /\ request[c].writes = {}
                         /\ request[c].projectId = 0
                         /\ \E id \in DOMAIN projects :
                               projects[id].slug = generateSlug(request[c].input.name)
                 /\ request[c].result = Ok
                      => /\ request[c].projectId \in DOMAIN projects
                         /\ projects[request[c].projectId].slug
                               = generateSlug(request[c].input.name)

C8_Witness ==
    \E c \in Calls :
        /\ Done(c)
        /\ request[c].op = "projects.create"
        /\ request[c].result = SlugTaken
        /\ request[c].input.name = <<"A">>
        /\ \E id \in DOMAIN projects : projects[id].slug = <<"a">> /\ projects[id].status = "active"

\* C9: of overlapping creates whose names give one slug at most one inserts a
\* row, and the one whose insert the unique index rejects reports CONFLICT
\* to its caller.
C9_RejectedInsertIsConflict ==
    /\ \A i, j \in DOMAIN projects : i # j => projects[i].slug # projects[j].slug
    /\ \A c \in Calls :
          (Done(c) /\ request[c].op = "projects.create"
              /\ request[c].result.message = "Duplicate entry")
              => request[c].result.code = "CONFLICT"

(***************************************************************************)
(* Legality of pause and resume, one request at a time.                    *)
(***************************************************************************)
requiredStatus(op) == IF op = "projects.pause" THEN "active" ELSE "paused"

\* C10: pause of a project that is not active, and resume of one that is not
\* paused, end PRECONDITION_FAILED and change neither the project row nor the
\* audit log; a pause that returns leaves the project paused with pausedAt
\* set and one more project.paused entry, a resume leaves it active with
\* pausedAt cleared.
C10_PauseResumeLegality ==
    [][\A c \in Calls :
          (/\ request[c].op \in {"projects.pause", "projects.resume"}
           /\ InFlight(c)
           /\ ~NoSuchProject(request[c])
           /\ ~BelowAdmin(request[c]))
              => LET id == request[c].input.id
                     action == IF request[c].op = "projects.pause"
                               THEN "project.paused" ELSE "project.resumed"
                 IN  /\ (request[c].writes = {}
                            /\ projects[id].status # requiredStatus(request[c].op))
                          => /\ UNCHANGED <<projects, auditLogs>>
                             /\ request'[c].pc = "done"
                                  => request'[c].result.code = "PRECONDITION_FAILED"
                     /\ projects' # projects
                          => /\ projects[id].status = requiredStatus(request[c].op)
                             /\ projects' = [projects EXCEPT ![id] =
                                   [@ EXCEPT !.status = IF request[c].op = "projects.pause"
                                                        THEN "paused" ELSE "active",
                                             !.pausedAt = request[c].op = "projects.pause"]]
                     /\ (request'[c].pc = "done" /\ request'[c].result = Ok)
                          => /\ auditLogs' = Append(auditLogs,
                                   [userId |-> request[c].userId, action |-> action,
                                    resourceId |-> id])
                             /\ projects'[id].status = IF request[c].op = "projects.pause"
                                                       THEN "paused" ELSE "active"
                     /\ auditLogs' # auditLogs
                          => request'[c].pc = "done" /\ request'[c].result = Ok]_vars

\* A second pause of a paused project has been refused, and the log holds the
\* one project.paused entry of the first.
C10_Witness ==
    \E c \in Calls :
        /\ Done(c)
        /\ request[c].op = "projects.pause"
        /\ request[c].result.code = "PRECONDITION_FAILED"
        /\ request[c].input.id \in DOMAIN projects
        /\ projects[request[c].input.id].status = "paused"
        /\ projects[request[c].input.id].pausedAt
        /\ auditCount("project.paused", request[c].input.id) = 1

(***************************************************************************)
(* projects.delete, step by step.                                          *)
(***************************************************************************)
deletedEntry(c) ==
    [userId |-> request[c].userId, action |-> "project.deleted",
     resourceId |-> request[c].input.id]

C12_DeleteRollback ==
    [][\A c \in Calls :
          (request[c].op = "projects.delete" /\ request'[c].fault = "hook"
              /\ request'[c] # request[c])
              => LET id == request[c].input.id
                 IN  /\ "auditLogs" \notin request'[c].writes
                     /\ auditLogs' = auditLogs
                     /\ request[c].pc = "deprovision"
                          => request'[c].pc = "catch" /\ projects' = projects
                     /\ request[c].pc = "catch"
                          => /\ request'[c].pc = "done"
                             /\ request'[c].result = DeleteFailed
                             /\ projects' = [projects EXCEPT ![id].status = "active"]
                     /\ request[c].pc \in {"deprovision", "catch"}]_vars

C12_Witness ==
    \E c \in Calls :
        /\ Done(c) /\ request[c].op = "projects.delete" /\ request[c].fault = "hook"
        /\ request[c].result = DeleteFailed
        /\ projects[request[c].input.id].status = "active"
        /\ ~projects[request[c].input.id].deletedAt
        /\ auditCount("project.deleted", request[c].input.id) = 0

(***************************************************************************)
(* Transitional statuses.                                                  *)
(***************************************************************************)
\* Ids of the rows the requests of one behaviour can insert.
RowIds == 1..(MaxOps + 1)

InTransit(id) ==
    id \in DOMAIN projects /\ projects[id].status \in {"provisioning", "deleting"}

\* A project in a transitional status has the request that put it there
\* still running.
Settled ==
    /\ \A id \in DOMAIN projects :
          /\ projects[id].status = "provisioning"
                => \E c \in Calls : /\ InFlight(c) /\ request[c].op = "projects.create"
                                    /\ request[c].projectId = id
          /\ projects[id].status = "deleting"
                => \E c \in Calls : /\ InFlight(c) /\ request[c].op = "projects.delete"
                                    /\ request[c].input.id = id
                                    /\ "projects" \in request[c].writes
    /\ \A c \in Calls :
          (Done(c) /\ request[c].op = "projects.create" /\ request[c].projectId # 0)
              => projects[request[c].projectId].status # "provisioning"

\* C13: no project is provisioning or deleting unless the create, or a
\* delete, that made it so is still running, whether that request ends in
\* success or in failure; and, the handlers being resumed, every project that
\* is provisioning or deleting leaves that status.
C13_NoStuckTransitional ==
    /\ []Settled
    /\ \A id \in RowIds : InTransit(id) ~> ~InTransit(id)

\* A create and a delete have both failed and returned, leaving nothing in
\* a transitional status.
C13_Witness ==
    \E c, d \in Calls :
        /\ Done(c) /\ request[c].op = "projects.create" /\ request[c].fault = "hook"
        /\ Done(d) /\ request[d].op = "projects.delete" /\ request[d].fault = "hook"
        /\ \A id \in DOMAIN projects : ~InTransit(id)

(***************************************************************************)
(* Credential rotation, one request at a time.                             *)
(***************************************************************************)
TokenRoles == {"anon", "service_role"}

\* HS256 verification: a token verifies against the secret that signed it.
jwtVerify(token, secret) == token.sig = secret

\* C14: the rotation of the signing secret stores a secret that differs from
\* the prior one and from every secret issued before; the prior keys, and
\* any token signed with an earlier secret, do not verify against it; the
\* keys stored with it do, and they are what is stored when the call
\* returns.
C14_RotationRevokes ==
    [][\A c \in Calls :
          (/\ request[c].op = "projects.credentials.regenerateJwt"
           /\ request[c].input.id \in DOMAIN projectCredentials)
              => LET id == request[c].input.id
                     old == projectCredentials[id]
                     new == projectCredentials'[id]
                 IN  /\ request[c].pc = "rotate" /\ request'[c].pc # "rotate"
                          => /\ new.jwtSecret # old.jwtSecret
                             /\ ~jwtVerify(old.anonKey, new.jwtSecret)
                             /\ ~jwtVerify(old.serviceKey, new.jwtSecret)
                             /\ \A n \in 1..issued, role \in TokenRoles :
                                   ~jwtVerify(SignJWT(role, n), new.jwtSecret)
                             /\ jwtVerify(new.anonKey, new.jwtSecret)
                             /\ jwtVerify(new.serviceKey, new.jwtSecret)
                             /\ new.anonKey.role = "anon"
                             /\ new.serviceKey.role = "service_role"
                     /\ request[c].pc = "audit" /\ request'[c].pc = "done"
                          => projectCredentials' = projectCredentials]_vars

C14_Witness ==
    \E c \in Calls :
        /\ Done(c) /\ request[c].op = "projects.credentials.regenerateJwt"
        /\ request[c].result = Ok
        /\ request[c].input.id \in DOMAIN projectCredentials
        /\ projectCredentials[request[c].input.id].jwtSecret = 2
        /\ jwtVerify(projectCredentials[request[c].input.id].anonKey, 2)

\* C15: when the rotation of the signing secret returns, the credentials
\* stored for the project are the secret and the keys handed to the caller,
\* whatever project the caller was allowed to name.
C15_RotationIsStored ==
    \A c \in Calls :
        (Done(c) /\ request[c].op = "projects.credentials.regenerateJwt"
            /\ request[c].result = Ok)
            => /\ request[c].input.id \in DOMAIN projectCredentials
               /\ projectCredentials[request[c].input.id] = request[c].credentials

\* C16: the rotation of the keys changes nothing but the two keys of the
\* project, which it signs with the secret that is stored and stays stored;
\* without a credentials row the call ends NOT_FOUND having written nothing.
C16_KeysRotationFrame ==
    [][\A c \in Calls :
          request[c].op = "projects.credentials.regenerateKeys"
              => LET id == request[c].input.id
                 IN  /\ request[c].pc = "update" /\ request'[c].pc # "update"
                          => /\ id \in DOMAIN projectCredentials
                             /\ projectCredentials' =
                                   [projectCredentials EXCEPT ![id] =
                                      [jwtSecret |-> @.jwtSecret,
                                       anonKey |-> SignJWT("anon", @.jwtSecret),
                                       serviceKey |-> SignJWT("service_role", @.jwtSecret)]]
                             /\ jwtVerify(projectCredentials'[id].anonKey,
                                          projectCredentials'[id].jwtSecret)
                             /\ jwtVerify(projectCredentials'[id].serviceKey,
                                          projectCredentials'[id].jwtSecret)
                     /\ request[c].pc # "update" => projectCredentials' = projectCredentials
                     /\ (request[c].pc = "load" /\ id \notin DOMAIN projectCredentials)
                          => /\ request'[c].pc = "done"
                             /\ request'[c].result = TRPCError("NOT_FOUND", "Credentials not found")
                             /\ request'[c].writes = {}
                             /\ UNCHANGED tables
                     /\ auditLogs' # auditLogs
                          => /\ request[c].pc = "audit"
                             /\ "projectCredentials" \in request[c].writes]_vars

C16_Witness ==
    \E c \in Calls :
        /\ Done(c) /\ request[c].op = "projects.credentials.regenerateKeys"
        /\ request[c].result = Ok
        /\ request[c].input.id \in DOMAIN projectCredentials
        /\ projectCredentials[request[c].input.id].jwtSecret = 2
        /\ projectCredentials[request[c].input.id].anonKey = SignJWT("anon", 2)
        /\ auditCount("project.credentials.regenerated", request[c].input.id) = 1

\* C17: a credentials row exists only for a project that has been set
\* active: none is there for a project that is provisioning, nor for one
\* whose create has not yet activated it.
C17_CredentialsOnlyForActivated ==
    \A id \in DOMAIN projectCredentials :
        /\ id \in DOMAIN projects
        /\ projects[id].status # "provisioning"
        /\ ~\E c \in Calls : /\ request[c].op = "projects.create"
                             /\ request[c].projectId = id
                             /\ request[c].pc = "activate"

(***************************************************************************)
(* Organizations and their projects.                                       *)
(***************************************************************************)
\* C18: an organization is removed only when none of its projects is other
\* than deleted, and every project that is not deleted belongs to an
\* organization that has a row, also when organizations.delete and
\* projects.create overlap.
C18_ProjectsHaveOrganization ==
    /\ [][\A o \in organizations \ organizations' : notDeleted(o) = {}]_vars
    /\ [](\A id \in DOMAIN projects :
             projects[id].status # "deleted" => projects[id].organizationId \in organizations)

(***************************************************************************)
(* The order of the checks of projects.create, one request at a time.      *)
(***************************************************************************)
\* C19: a create for an organization that has maxProjects projects not
\* deleted ends PRECONDITION_FAILED at the quota check, also when its slug
\* is taken, and leaves every table as it was; the slug is looked up only
\* after the quota check has passed, and nothing is written before either.
C19_QuotaBeforeSlug ==
    [][\A c \in Calls :
          request[c].op = "projects.create"
              => LET o == request[c].input.organizationId
                 IN  /\ request[c].pc \in {"access", "quota", "slug", "org", "insert"}
                          => request[c].writes = {} /\ request[c].projectId = 0
                     /\ (/\ request[c].pc = "quota"
                         /\ o \in DOMAIN subscriptions
                         /\ Cardinality(notDeleted(o)) >= maxProjectsOf(o))
                          => /\ request'[c].pc = "done"
                             /\ request'[c].result = LimitReached
                             /\ request'[c].writes = {}
                             /\ UNCHANGED tables
                     /\ request[c].pc # "slug" /\ request'[c].pc = "slug"
                          => /\ request[c].pc = "quota"
                             /\ Cardinality(notDeleted(o)) < maxProjectsOf(o)
                     /\ request[c].pc # "done" /\ request'[c].result = SlugTaken
                          => request[c].pc = "slug"]_vars

\* A create whose slug is taken was refused for the limit.
C19_Witness ==
    \E c \in Calls :
        /\ CreateReturned(c)
        /\ request[c].result = LimitReached
        /\ request[c].writes = {}
        /\ Cardinality(notDeleted(request[c].input.organizationId)) = FreeMaxProjects
        /\ \E id \in DOMAIN projects :
              /\ projects[id].slug = generateSlug(request[c].input.name)
              /\ projects[id].status = "active"
        /\ Len(projects) = FreeMaxProjects
        /\ Len(auditLogs) = FreeMaxProjects

\* C20: under a plan whose maxProjects is -1 no create is refused for the
\* limit.
C20_UnlimitedNeverRejected ==
    \A c \in Calls :
        (CreateReturned(c) /\ maxProjectsOf(request[c].input.organizationId) = -1)
            => request[c].result # LimitReached

(***************************************************************************)
(* The audit log of the project procedures, one request at a time.         *)
(***************************************************************************)
tagOf(op) ==
    CASE op = "projects.create" -> "project.created"
      [] op = "projects.pause" -> "project.paused"
      [] op = "projects.resume" -> "project.resumed"
      [] op = "projects.delete" -> "project.deleted"
      [] op = "projects.credentials.regenerateKeys" -> "project.credentials.regenerated"
      [] op = "projects.credentials.regenerateJwt" -> "project.jwt.regenerated"

\* The project a request is about.
targetOf(r) == IF r.op = "projects.create" THEN r.projectId ELSE r.input.id

\* The state write of the request is in the tables.
Committed(r) ==
    LET id == targetOf(r)
    IN  /\ id \in DOMAIN projects
        /\ CASE r.op = "projects.create" ->
                    projects[id].status = "active" /\ id \in DOMAIN projectCredentials
              [] r.op = "projects.pause" ->
                    projects[id].status = "paused" /\ projects[id].pausedAt
              [] r.op = "projects.resume" ->
                    projects[id].status = "active" /\ ~projects[id].pausedAt
              [] r.op = "projects.delete" ->
                    projects[id].status = "deleted" /\ projects[id].deletedAt
              [] r.op = "projects.credentials.regenerateKeys" ->
                    /\ id \in DOMAIN projectCredentials
                    /\ projectCredentials[id].anonKey = r.credentials.anonKey
                    /\ projectCredentials[id].serviceKey = r.credentials.serviceKey
              [] r.op = "projects.credentials.regenerateJwt" ->
                    /\ id \in DOMAIN projectCredentials
                    /\ projectCredentials[id] = r.credentials

\* C21: the audit log grows only by the entry of a project procedure that
\* returns success in that step, its state write being in the tables; a
\* call that returns success has appended its entry, once, and a call that
\* fails has appended none.
C21_AuditAfterCommit ==
    [][\A c \in Calls :
          request[c].op \in ProjectMutations
              => LET entry == [userId |-> request[c].userId,
                               action |-> tagOf(request[c].op),
                               resourceId |-> targetOf(request[c])]
                 IN  /\ auditLogs' # auditLogs
                          => /\ auditLogs' = Append(auditLogs, entry)
                             /\ request[c].pc = "audit"
                             /\ request'[c].pc = "done" /\ request'[c].result = Ok
                             /\ Committed(request[c])
                     /\ (request[c].pc # "done" /\ request'[c].pc = "done"
                            /\ request'[c].result = Ok)
                          => auditLogs' = Append(auditLogs, entry)
                     /\ (request[c].pc # "done" /\ request'[c].pc = "done"
                            /\ request'[c].result # Ok)
                          => /\ auditLogs' = auditLogs
                             /\ "auditLogs" \notin request'[c].writes]_vars

(***************************************************************************)
(* The slug derived from a project name.                                   *)
(***************************************************************************)
WellFormedSlug(slug) ==
    /\ Len(slug) <= SlugMax
    /\ \A i \in 1..Len(slug) : isAlnum(slug[i]) \/ slug[i] = "-"
    /\ \A i \in 1..(Len(slug) - 1) : ~(slug[i] = "-" /\ slug[i + 1] = "-")
    /\ slug # <<>> => slug[1] # "-" /\ slug[Len(slug)] # "-"

\* C22: the slug projects.create derives from a name has at most 50
\* characters, all of them lower-case letters, digits or hyphens, no two
\* hyphens in a row, no hyphen at either end, and deriving a slug from it
\* gives it back; so has every slug stored in a project row.
C22_SlugWellFormed ==
    /\ \A c \in Calls :
          request[c].op = "projects.create"
              => LET slug == generateSlug(request[c].input.name)
                 IN  WellFormedSlug(slug) /\ generateSlug(slug) = slug
    /\ \A id \in DOMAIN projects :
          WellFormedSlug(projects[id].slug)
              /\ generateSlug(projects[id].slug) = projects[id].slug

(***************************************************************************)
(* The role check.                                                         *)
(***************************************************************************)
requiredRank(minRole) ==
    CASE minRole = "owner" -> 3 [] minRole = "admin" -> 2 [] minRole = "member" -> 1

\* The organization and the role a membership procedure hands to the check.
checkedOrganization(r) ==
    IF r.op = "organizations.members.add" THEN r.input.organizationId
    ELSE r.input.memberId

checkedRole(r) == IF r.op = "organizations.members.add" THEN "admin" ELSE "owner"

\* C23: whatever the memberships, checkOrganizationAccess succeeds exactly
\* when the caller has a membership in the organization whose rank (owner 3,
\* admin 2, member 1) is at least the rank of the role required, and fails
\* FORBIDDEN otherwise; when it fails for member it fails for admin and for
\* owner; and the step of a membership procedure that makes the check
\* changes no table and stops the procedure exactly when the check fails.
C23_RoleCheck ==
    /\ [](\A u \in Users, o \in MemberIdInputs :
            /\ \A r \in Roles :
                  /\ checkOrganizationAccess(u, o, r) = Ok
                        <=> memberRank(u, o) >= requiredRank(r)
                  /\ checkOrganizationAccess(u, o, r) # Ok
                        => checkOrganizationAccess(u, o, r).code = "FORBIDDEN"
            /\ checkOrganizationAccess(u, o, "member") # Ok
                  => /\ checkOrganizationAccess(u, o, "admin") # Ok
                     /\ checkOrganizationAccess(u, o, "owner") # Ok)
    /\ [][\A c \in Calls :
            (request[c].pc = "access" /\ request'[c].pc # "access"
                /\ request[c].op \in {"organizations.members.add",
                                       "organizations.members.updateRole"})
                => LET passes == memberRank(request[c].userId,
                                            checkedOrganization(request[c]))
                                    >= requiredRank(checkedRole(request[c]))
                   IN  /\ tables' = tables
                       /\ passes \/ (request'[c].pc = "done"
                                       /\ request'[c].result.code = "FORBIDDEN")
                       /\ passes => ~(request'[c].pc = "done"
                                       /\ request'[c].result.code = "FORBIDDEN")]_vars

\* A caller made admin by a role change has passed the check for admin.
C23_Witness ==
    \E c \in Calls :
        /\ Done(c)
        /\ request[c].op = "organizations.members.add"
        /\ request[c].result = Ok
        /\ memberRank(request[c].userId, request[c].input.organizationId) = 2

(***************************************************************************)
(* Deployment of edge functions.                                           *)
(***************************************************************************)
deployed(c) ==
    Done(c) /\ request[c].op = "edgeFunctions.deploy" /\ request[c].result = Ok

\* C24: the step in which a deploy returns success leaves the function
\* active with its stored version one above the version stored before the
\* step, whatever other deploys are in flight, and two deploys of one
\* function that have returned success have returned different versions.
C24_DeployRaisesVersion ==
    /\ [][\A c \in Calls :
            (~deployed(c))' \/ deployed(c)
                \/ LET id == request[c].input.id
                   IN  /\ edgeFunctions'[id].status = "active"
                       /\ edgeFunctions'[id].version = edgeFunctions[id].version + 1]_vars
    /\ [](\A c, d \in Calls :
            (c # d /\ deployed(c) /\ deployed(d)
                 /\ request[c].input.id = request[d].input.id)
                => request[c].func.version + 1 # request[d].func.version + 1)

\* C25: the anon key and the service key stored in a credentials row verify
\* against the signing secret stored in that row, also while rotations of
\* the keys and of the secret of one project overlap.
C25_StoredKeysVerify ==
    \A id \in DOMAIN projectCredentials :
        /\ jwtVerify(projectCredentials[id].anonKey, projectCredentials[id].jwtSecret)
        /\ jwtVerify(projectCredentials[id].serviceKey, projectCredentials[id].jwtSecret)

\* C26: the projects of a subscribed organization that are not deleted never
\* outnumber the maxProjects of its plan, also while creates of projects
\* with different slugs overlap.
C26_QuotaNeverExceeded ==
    \A o \in DOMAIN subscriptions :
        maxProjectsOf(o) >= 0 => Cardinality(notDeleted(o)) <= maxProjectsOf(o)

\* C27: a project whose delete has returned success has status deleted from
\* then on, whatever pause, resume or delete overlapped it or came later.
C27_DeletedIsFinal ==
    \A c \in Calls :
        (Done(c) /\ request[c].op = "projects.delete" /\ request[c].result = Ok)
            => projects[request[c].input.id].status = "deleted"

\* C28: a project that is active or paused has a credentials row, also
\* after the rollback of a failed delete.
C28_ActiveHasCredentials ==
    \A id \in DOMAIN projects :
        projects[id].status \in {"active", "paused"} => id \in DOMAIN projectCredentials

\* C29: when no request is in flight, a project has deletedAt set exactly
\* when its status is deleted.
C29_DeletedAtIffDeleted ==
    Quiet => \A id \in DOMAIN projects :
                projects[id].deletedAt <=> projects[id].status = "deleted"

\* C30: a project that is active has pausedAt unset.
C30_ActiveNotPaused ==
    \A id \in DOMAIN projects : projects[id].status = "active" => ~projects[id].pausedAt

====
